---- MODULE Spec2Model ----
(***************************************************************************)
(* Order confirmation system: the availability (ATP) computations, the     *)
(* delivery scheduler, the split-shipment planner, the channel dispatcher  *)
(* and the audit ledger, modelled from src/ATP_Checker_Agent.py and        *)
(* src/Confirm_Order_Process.py; the ingestion of order lines and the ERP  *)
(* data provider, modelled from src/atp_agent.py and                       *)
(* src/erp_integration.py.                                                 *)
(*                                                                         *)
(* Dates are day numbers; weekday(d) = d % 7 with 0 = Monday, as Python's  *)
(* date.weekday().                                                         *)
(***************************************************************************)
EXTENDS Integers, Sequences, FiniteSets, TLC

VARIABLES
    order_line,        \* the OrderLine being processed
    inventory,         \* List[InventorySnapshot] handed to calculate_atp
    purchase_orders,   \* List[PurchaseOrder] handed to calculate_atp
    config,            \* ATPConfig / SystemConfig attributes that vary
    atp_by,            \* which calculate_atp produced atp_result
    atp_result,        \* the ATPResult returned
    schedule,          \* the ScheduleResult of schedule_delivery
    split_decision,    \* the SplitDecision of evaluate_split
    dispatches,        \* the DispatchResults of ChannelDispatcherAgent.process_batch
    logs,              \* AuditLoggerAgent.logs
    clock,             \* datetime.now(), in ticks of its resolution
    last_op,           \* the last AuditLoggerAgent method called
    ret,               \* what that call returned
    caller_pc,         \* per concurrent caller: position inside log_action
    caller_log_id,     \* per concurrent caller: the log_id it has computed
    caller_calls,      \* per concurrent caller: log_action calls started
    trail_arg,         \* the order_id argument of the last get_audit_trail call
    export_file,       \* content of the file export_logs writes
    order_lines,       \* List[OrderLine] of a batch
    atp_results,       \* List[ATPResult] of a batch
    schedules,         \* List[ScheduleResult] of a batch
    split_decisions,   \* List[SplitDecision] of a batch
    confirmations,     \* List[Confirmation] of a batch
    stage,             \* position inside process_orders / _execute_atp_check
    request,           \* the order-line records handed in for ingestion
    erp_failed,        \* the ERP calls that ended in a RequestException
    response,          \* what _execute_atp_check returned
    lead_time,         \* what get_lead_time returned
    heap,              \* the caller's objects that log_action is handed, by reference
    recorded           \* input_data and output_data of the entries of logs

vars == <<order_line, inventory, purchase_orders, config, atp_by, atp_result,
          schedule, split_decision, dispatches, logs, clock, last_op, ret,
          caller_pc, caller_log_id, caller_calls, trail_arg, export_file,
          order_lines, atp_results, schedules, split_decisions, confirmations,
          stage, request, erp_failed, response, lead_time, heap, recorded>>

atp_vars      == <<order_line, inventory, purchase_orders, config, atp_by, atp_result>>
pipeline_vars == <<schedule, split_decision>>
dispatch_vars == <<dispatches>>
ledger_vars   == <<logs, clock, last_op, ret, trail_arg, export_file>>
caller_vars   == <<caller_pc, caller_log_id, caller_calls>>
batch_vars    == <<order_lines, atp_results, schedules, split_decisions,
                   confirmations, stage>>
request_vars  == <<request, erp_failed, response, lead_time>>
snapshot_vars == <<heap, recorded>>
batch_vars_but_stage ==
    <<order_lines, atp_results, schedules, split_decisions, confirmations>>

----------------------------------------------------------------------------
(* Bounds of the model *)

MaxQty == 3          \* largest requested quantity
MaxOnHand == 1       \* largest on-hand quantity of one inventory row
MaxInv == 2          \* most inventory rows
MaxPO == 1           \* most purchase orders
Today == 0           \* date.today()

(* Program constants *)

default_lead_time_days == 14
receiving_buffer_days == 1
quality_buffer_days == 1
transit_days_default == 2

----------------------------------------------------------------------------
(* Generic helpers *)

Max(a, b) == IF a >= b THEN a ELSE b

SeqsUpTo(S, n) == UNION {[1..k -> S] : k \in 0..n}

NoShipFrom == "None"
NoOrderId == "None"
NoFile == [written |-> FALSE, content |-> <<>>]
NoResult == [status |-> "NONE"]

Items == {"A", "B"}
Locations == {"MAIN", "ALT"}
SafetyQtys == {0, 1}
ReqDates == {3, 6}
PODates == {1, 7}

----------------------------------------------------------------------------
(* Input domains *)

\* Rows of the line's item at MAIN vary in quantity; one row of another item
\* and one row at another location exercise the two filters.
InventoryRows ==
    {r \in [item: Items, location: Locations,
            on_hand_qty: 0..MaxOnHand, safety_stock_qty: SafetyQtys] :
        (r.item # "A" \/ r.location # "MAIN") =>
            /\ r.on_hand_qty = MaxOnHand /\ r.safety_stock_qty = 0
            /\ (r.item = "A" \/ r.location = "MAIN")}

\* Purchase orders of the line's item at MAIN that cover any line vary in date
\* and confirmation; a purchase order of one unit is too small for most lines.
PORows ==
    {p \in [item: Items, location: Locations, quantity: {1, MaxQty},
            expected_delivery_date: PODates, confirmed: BOOLEAN] :
        /\ p.quantity = 1 => p.confirmed
        /\ (p.item # "A" \/ p.location # "MAIN") =>
            /\ p.quantity = MaxQty /\ p.confirmed /\ p.expected_delivery_date = 1
            /\ (p.item = "A" \/ p.location = "MAIN")}

EngineLines ==
    [order_id: {"O1"}, line_id: {"L1"}, item: {"A"}, quantity: 1..MaxQty,
     requested_date: ReqDates, ship_from: {NoShipFrom, "MAIN"},
     priority: {"NORMAL"}, window: {FALSE}, allow_partial: {TRUE}]

Configs ==
    [allow_partial_ship: BOOLEAN, consider_unconfirmed_pos: BOOLEAN,
     max_retry_attempts: {3}]

----------------------------------------------------------------------------
(* ATPEngine.calculate_atp, src/ATP_Checker_Agent.py *)

ATPResult(ol, qty, earliest, status, source) ==
    [order_id |-> ol.order_id, line_id |-> ol.line_id, item |-> ol.item,
     requested_quantity |-> ol.quantity, requested_date |-> ol.requested_date,
     available_quantity |-> qty, earliest_available_date |-> earliest,
     status |-> status, source |-> source]

RECURSIVE SumOnHand(_)
SumOnHand(rows) ==
    IF rows = <<>> THEN 0 ELSE Head(rows).on_hand_qty + SumOnHand(Tail(rows))

RECURSIVE SumSafetyStock(_)
SumSafetyStock(rows) ==
    IF rows = <<>> THEN 0 ELSE Head(rows).safety_stock_qty + SumSafetyStock(Tail(rows))

relevant_inventory(ol, inv) ==
    LET by_item == SelectSeq(inv, LAMBDA r: r.item = ol.item)
    IN  IF ol.ship_from # NoShipFrom
        THEN SelectSeq(by_item, LAMBDA r: r.location = ol.ship_from)
        ELSE by_item

\* list.sort(key=expected_delivery_date): stable, ascending
RECURSIVE InsertByDate(_, _)
InsertByDate(po, sorted) ==
    IF sorted = <<>> THEN <<po>>
    ELSE IF Head(sorted).expected_delivery_date <= po.expected_delivery_date
         THEN <<Head(sorted)>> \o InsertByDate(po, Tail(sorted))
         ELSE <<po>> \o sorted

RECURSIVE SortByDate(_)
SortByDate(pos) ==
    IF pos = <<>> THEN <<>>
    ELSE InsertByDate(pos[Len(pos)], SortByDate(SubSeq(pos, 1, Len(pos) - 1)))

MutRelevantPos(ol, pos, cfg) ==
    LET by_item == SelectSeq(pos, LAMBDA p: p.item = ol.item)
        by_loc  == IF ol.ship_from # NoShipFrom
                   THEN SelectSeq(by_item, LAMBDA p: p.location = ol.ship_from)
                   ELSE by_item
    IN  IF ~cfg.consider_unconfirmed_pos
        THEN SelectSeq(by_loc, LAMBDA p: p.confirmed)
        ELSE by_loc
relevant_pos(ol, pos, cfg) ==
    LET by_item == SelectSeq(pos, LAMBDA p: p.item = ol.item)
        by_loc  == IF ol.ship_from # NoShipFrom
                   THEN SelectSeq(by_item, LAMBDA p: p.location = ol.ship_from)
                   ELSE by_item
        kept    == IF ~cfg.consider_unconfirmed_pos
                   THEN SelectSeq(by_loc, LAMBDA p: p.confirmed)
                   ELSE by_loc
    IN  SortByDate(kept)

MutAvailableStock(rows) == Max(0, SumOnHand(rows))
available_stock(rows) == Max(0, SumOnHand(rows) - SumSafetyStock(rows))

MutBufferDays == receiving_buffer_days + quality_buffer_days
buffer_days == receiving_buffer_days + quality_buffer_days + transit_days_default

MutStockCovers(stock, ol) == stock > ol.quantity
StockCovers(stock, ol) == stock >= ol.quantity

MutStockQuantity(stock, ol) == stock
StockQuantity(stock, ol) == ol.quantity

PartialApplies(stock, cfg) == cfg.allow_partial_ship /\ stock > 0

\* the loop over the sorted purchase orders and the lead-time fallback after it
RECURSIVE AccumulatePOs(_, _, _)
AccumulatePOs(ol, pos, accumulated_qty) ==
    IF pos = <<>>
    THEN ATPResult(ol, ol.quantity,
                   Today + default_lead_time_days + buffer_days,
                   "BACKORDER", "FUTURE_PRODUCTION")
    ELSE LET po == Head(pos)
             acc == accumulated_qty + po.quantity
             earliest_po_date == po.expected_delivery_date + buffer_days
         IN  IF acc >= ol.quantity
             THEN ATPResult(ol, ol.quantity,
                            Max(ol.requested_date, earliest_po_date),
                            IF earliest_po_date <= ol.requested_date
                            THEN "AVAILABLE" ELSE "BACKORDER",
                            "INBOUND_PO")
             ELSE AccumulatePOs(ol, Tail(pos), acc)

ATPEngine_calculate_atp(ol, inv, pos, cfg) ==
    LET stock == available_stock(relevant_inventory(ol, inv))
        earliest_date == Max(ol.requested_date, Today + buffer_days)
    IN  IF StockCovers(stock, ol)
        THEN ATPResult(ol, StockQuantity(stock, ol), earliest_date, "AVAILABLE", "STOCK")
        ELSE IF PartialApplies(stock, cfg)
        THEN ATPResult(ol, stock, earliest_date, "PARTIAL", "STOCK")
        ELSE AccumulatePOs(ol, relevant_pos(ol, pos, cfg), stock)

----------------------------------------------------------------------------
(* ATPCheckerAgent.calculate_atp, src/Confirm_Order_Process.py *)

\* min(relevant_pos, key=expected_delivery_date): the first of the earliest
RECURSIVE EarliestPO(_)
EarliestPO(pos) ==
    IF Len(pos) = 1 THEN Head(pos)
    ELSE LET rest == EarliestPO(Tail(pos))
         IN  IF Head(pos).expected_delivery_date <= rest.expected_delivery_date
             THEN Head(pos) ELSE rest

ATPCheckerAgent_calculate_atp(ol, inv, pos, cfg) ==
    LET matching == SelectSeq(inv, LAMBDA r: r.item = ol.item)
        future_date == ol.requested_date + default_lead_time_days
    IN  IF matching = <<>>
        THEN ATPResult(ol, 0, future_date, "BACKORDER", "FUTURE_PRODUCTION")
        ELSE
        LET first == Head(matching)
            stock == Max(0, first.on_hand_qty - first.safety_stock_qty)
            rel   == SelectSeq(pos, LAMBDA p:
                        /\ p.item = ol.item
                        /\ p.expected_delivery_date >= ol.requested_date)
        IN  IF stock >= ol.quantity
            THEN ATPResult(ol, ol.quantity, ol.requested_date, "AVAILABLE", "STOCK")
            ELSE IF stock > 0 /\ cfg.allow_partial_ship
            THEN ATPResult(ol, stock, ol.requested_date, "PARTIAL", "STOCK")
            ELSE IF rel # <<>>
            THEN ATPResult(ol, ol.quantity,
                           EarliestPO(rel).expected_delivery_date + receiving_buffer_days,
                           "AVAILABLE", "INBOUND_PO")
            ELSE ATPResult(ol, 0, future_date, "BACKORDER", "FUTURE_PRODUCTION")

----------------------------------------------------------------------------
(* Idle values of the parts a specification does not use *)

PipelineIdle == schedule = NoResult /\ split_decision = NoResult
DispatchIdle == dispatches = <<>>
LedgerIdle   ==
    /\ logs = <<>> /\ clock = 0 /\ last_op = "none" /\ ret = <<>>
    /\ trail_arg = NoOrderId /\ export_file = NoFile
CallersIdle  == caller_pc = <<>> /\ caller_log_id = <<>> /\ caller_calls = <<>>
SnapshotIdle == heap = <<>> /\ recorded = <<>>
BatchIdle    ==
    /\ order_lines = <<>> /\ atp_results = <<>> /\ schedules = <<>>
    /\ split_decisions = <<>> /\ confirmations = <<>> /\ stage = "none"
RequestIdle  ==
    /\ request = <<>> /\ erp_failed = {} /\ response = NoResult
    /\ lead_time = NoResult

----------------------------------------------------------------------------
(* Availability computations on bounded inputs *)

InitATP ==
    /\ order_line \in EngineLines
    /\ inventory \in SeqsUpTo(InventoryRows, MaxInv)
    /\ purchase_orders \in SeqsUpTo(PORows, MaxPO)
    /\ config \in Configs
    /\ atp_by = "none"
    /\ atp_result = NoResult
    /\ PipelineIdle /\ DispatchIdle /\ LedgerIdle /\ CallersIdle /\ SnapshotIdle
    /\ BatchIdle /\ RequestIdle

EngineCalculate ==
    /\ atp_by = "none"
    /\ atp_result' = ATPEngine_calculate_atp(order_line, inventory, purchase_orders, config)
    /\ atp_by' = "ATPEngine"
    /\ UNCHANGED <<order_line, inventory, purchase_orders, config>>
    /\ UNCHANGED <<pipeline_vars, dispatch_vars, ledger_vars, caller_vars, snapshot_vars, batch_vars, request_vars>>

AgentCalculate ==
    /\ atp_by = "none"
    /\ atp_result' = ATPCheckerAgent_calculate_atp(order_line, inventory, purchase_orders, config)
    /\ atp_by' = "ATPCheckerAgent"
    /\ UNCHANGED <<order_line, inventory, purchase_orders, config>>
    /\ UNCHANGED <<pipeline_vars, dispatch_vars, ledger_vars, caller_vars, snapshot_vars, batch_vars, request_vars>>

NextATP == EngineCalculate \/ AgentCalculate

SpecATP == InitATP /\ [][NextATP]_vars

----------------------------------------------------------------------------
(* DeliverySchedulerAgent.schedule_delivery, src/Confirm_Order_Process.py *)

carrier_transit_times ==
    [c \in {"FedEx", "UPS", "DHL", "USPS"} |->
        CASE c = "FedEx" -> [MIN |-> 1, MAX |-> 3]
          [] c = "UPS"   -> [MIN |-> 2, MAX |-> 4]
          [] c = "DHL"   -> [MIN |-> 1, MAX |-> 5]
          [] c = "USPS"  -> [MIN |-> 3, MAX |-> 7]]

\* the carriers random.choice can return for a priority
CarrierChoices(priority) ==
    IF priority = "PRIORITY" THEN {"FedEx"}
    ELSE IF priority = "NORMAL" THEN {"UPS", "FedEx"}
    ELSE {"USPS", "DHL"}

\* the values random.randint(MIN, MAX) can return for a carrier
MutTransitChoices(carrier) ==
    carrier_transit_times[carrier].MIN .. carrier_transit_times[carrier].MAX + 1
TransitChoices(carrier) ==
    carrier_transit_times[carrier].MIN .. carrier_transit_times[carrier].MAX

MutWeekday(d) == (d + 1) % 7
weekday(d) == d % 7

schedule_delivery(atp, ol, carrier, transit_days) ==
    LET ship_date == atp.earliest_available_date
        arrival   == ship_date + transit_days
        delivery_date ==
            IF ol.window /\ weekday(arrival) >= 5
            THEN arrival + (7 - weekday(arrival))
            ELSE arrival
    IN  [order_id |-> atp.order_id, line_id |-> atp.line_id, item |-> atp.item,
         quantity |-> atp.available_quantity,
         ship_date |-> ship_date, delivery_date |-> delivery_date,
         carrier |-> carrier, transit_days |-> transit_days,
         meets_customer_window |-> TRUE]

----------------------------------------------------------------------------
(* SplitShipmentAgent.evaluate_split, src/Confirm_Order_Process.py *)

Shipment(qty, ship_date, delivery_date, carrier, status) ==
    [quantity |-> qty, ship_date |-> ship_date, delivery_date |-> delivery_date,
     carrier |-> carrier, status |-> status]

SplitDecision(atp, shipments, reason) ==
    [order_id |-> atp.order_id, line_id |-> atp.line_id, item |-> atp.item,
     total_quantity |-> atp.requested_quantity,
     shipments |-> shipments, split_reason |-> reason]

MutEvaluateSplit(atp, sched, ol) ==
    IF atp.status = "AVAILABLE" /\ atp.available_quantity = atp.requested_quantity
    THEN SplitDecision(atp,
            <<Shipment(sched.quantity, sched.ship_date, sched.delivery_date,
                       sched.carrier, "COMPLETE")>>, "NONE")
    ELSE IF atp.status = "PARTIAL" /\ ol.allow_partial
    THEN LET remaining == atp.requested_quantity - atp.available_quantity
             future_ship_date == sched.delivery_date + default_lead_time_days
             future_delivery_date == future_ship_date + sched.transit_days
         IN  SplitDecision(atp,
                <<Shipment(atp.available_quantity, sched.ship_date,
                           sched.delivery_date, sched.carrier, "PARTIAL_1"),
                  Shipment(remaining, future_ship_date, future_delivery_date,
                           sched.carrier, "PARTIAL_2")>>,
                "PARTIAL_AVAILABILITY")
    ELSE IF atp.status = "BACKORDER"
    THEN SplitDecision(atp,
            <<Shipment(atp.requested_quantity, atp.earliest_available_date,
                       atp.earliest_available_date + sched.transit_days,
                       sched.carrier, "BACKORDER")>>, "BACKORDER")
    ELSE SplitDecision(atp,
            <<Shipment(sched.quantity, sched.ship_date, sched.delivery_date,
                       sched.carrier, "COMPLETE")>>, "NONE")
evaluate_split(atp, sched, ol) ==
    IF atp.status = "AVAILABLE" /\ atp.available_quantity = atp.requested_quantity
    THEN SplitDecision(atp,
            <<Shipment(sched.quantity, sched.ship_date, sched.delivery_date,
                       sched.carrier, "COMPLETE")>>, "NONE")
    ELSE IF atp.status = "PARTIAL" /\ ol.allow_partial
    THEN LET remaining == atp.requested_quantity - atp.available_quantity
             future_ship_date == sched.ship_date + default_lead_time_days
             future_delivery_date == future_ship_date + sched.transit_days
         IN  SplitDecision(atp,
                <<Shipment(atp.available_quantity, sched.ship_date,
                           sched.delivery_date, sched.carrier, "PARTIAL_1"),
                  Shipment(remaining, future_ship_date, future_delivery_date,
                           sched.carrier, "PARTIAL_2")>>,
                "PARTIAL_AVAILABILITY")
    ELSE IF atp.status = "BACKORDER"
    THEN SplitDecision(atp,
            <<Shipment(atp.requested_quantity, atp.earliest_available_date,
                       atp.earliest_available_date + sched.transit_days,
                       sched.carrier, "BACKORDER")>>, "BACKORDER")
    ELSE SplitDecision(atp,
            <<Shipment(sched.quantity, sched.ship_date, sched.delivery_date,
                       sched.carrier, "COMPLETE")>>, "NONE")

----------------------------------------------------------------------------
(* One order line through ATP check, scheduling and split planning, the    *)
(* first three stages of OrderConfirmationOrchestrator.process_orders      *)

PipelineRows ==
    {r \in InventoryRows : r.location = "MAIN"}

PipelinePORows ==
    {p \in PORows : p.location = "MAIN" /\ p.confirmed /\ p.quantity = MaxQty}

PipelineLines ==
    [order_id: {"O1"}, line_id: {"L1"}, item: {"A"}, quantity: 1..MaxQty,
     requested_date: ReqDates, ship_from: {"WAREHOUSE_01"},
     priority: {"PRIORITY", "NORMAL", "LOW"}, window: BOOLEAN,
     allow_partial: BOOLEAN]

PipelineConfigs == {c \in Configs : ~c.consider_unconfirmed_pos}

InitPipeline ==
    /\ order_line \in PipelineLines
    /\ inventory \in SeqsUpTo(PipelineRows, MaxInv)
    /\ purchase_orders \in SeqsUpTo(PipelinePORows, MaxPO)
    /\ config \in PipelineConfigs
    /\ atp_by = "none"
    /\ atp_result = NoResult
    /\ PipelineIdle /\ DispatchIdle /\ LedgerIdle /\ CallersIdle /\ SnapshotIdle
    /\ BatchIdle /\ RequestIdle

ScheduleDelivery ==
    /\ atp_by = "ATPCheckerAgent"
    /\ schedule = NoResult
    /\ \E carrier \in CarrierChoices(order_line.priority) :
         \E transit_days \in TransitChoices(carrier) :
            schedule' = schedule_delivery(atp_result, order_line, carrier, transit_days)
    /\ UNCHANGED <<atp_vars, split_decision, dispatch_vars, ledger_vars, caller_vars, snapshot_vars, batch_vars, request_vars>>

EvaluateSplit ==
    /\ schedule # NoResult
    /\ split_decision = NoResult
    /\ split_decision' = evaluate_split(atp_result, schedule, order_line)
    /\ UNCHANGED <<atp_vars, schedule, dispatch_vars, ledger_vars, caller_vars, snapshot_vars, batch_vars, request_vars>>

NextPipeline == AgentCalculate \/ ScheduleDelivery \/ EvaluateSplit

SpecPipeline == InitPipeline /\ [][NextPipeline]_vars

\* the same three stages where at most one inventory row exists
InitSchedule ==
    /\ order_line \in PipelineLines
    /\ inventory \in {<<>>} \cup {<<r>> : r \in PipelineRows}
    /\ purchase_orders \in SeqsUpTo(PipelinePORows, MaxPO)
    /\ config \in PipelineConfigs
    /\ atp_by = "none"
    /\ atp_result = NoResult
    /\ PipelineIdle /\ DispatchIdle /\ LedgerIdle /\ CallersIdle /\ SnapshotIdle
    /\ BatchIdle /\ RequestIdle

SpecSchedule == InitSchedule /\ [][NextPipeline]_vars

----------------------------------------------------------------------------
(* ChannelDispatcherAgent.dispatch_confirmation, src/Confirm_Order_Process.py *)

MaxRetryAttempts == 3    \* largest configured max_retry_attempts
MaxDispatches == 2       \* most confirmations dispatched in one run

channel_preference(priority) ==
    CASE priority = "PRIORITY" -> "API"
      [] priority = "NORMAL"   -> "EMAIL"
      [] priority = "LOW"      -> "EDI"
      [] OTHER                 -> "EMAIL"

MutRetryAllowed(attempt_count, cfg) == attempt_count <= cfg.max_retry_attempts
RetryAllowed(attempt_count, cfg) == attempt_count < cfg.max_retry_attempts

DispatchResult(order_id, channel, status, attempt_count, receipt_confirmed, sends) ==
    [order_id |-> order_id, channel |-> channel, status |-> status,
     attempt_count |-> attempt_count, receipt_confirmed |-> receipt_confirmed,
     sends |-> sends]

\* first_ok and retry_ok are the outcomes of the two random.random() draws that
\* stand for the send attempts; sends records the draws the call really made.
dispatch_confirmation(order_id, ol, cfg, first_ok, retry_ok) ==
    LET channel == channel_preference(ol.priority)
    IN  IF first_ok
        THEN DispatchResult(order_id, channel, "SENT", 1, TRUE, <<first_ok>>)
        ELSE IF RetryAllowed(1, cfg)
        THEN IF retry_ok
             THEN DispatchResult(order_id, channel, "SENT", 2, TRUE,
                                 <<first_ok, retry_ok>>)
             ELSE DispatchResult(order_id, channel, "RETRY", 2, FALSE,
                                 <<first_ok, retry_ok>>)
        ELSE DispatchResult(order_id, channel, "FAILED", 1, FALSE, <<first_ok>>)

DispatchLines ==
    [order_id: {"O1"}, line_id: {"L1"}, item: {"A"}, quantity: {1},
     requested_date: {3}, ship_from: {"WAREHOUSE_01"},
     priority: {"PRIORITY", "NORMAL", "LOW", "HIGH"}, window: {FALSE},
     allow_partial: {TRUE}]

DispatchConfigs ==
    [allow_partial_ship: {TRUE}, consider_unconfirmed_pos: {FALSE},
     max_retry_attempts: 1..MaxRetryAttempts]

InitDispatch ==
    /\ order_line \in DispatchLines
    /\ inventory = <<>>
    /\ purchase_orders = <<>>
    /\ config \in DispatchConfigs
    /\ atp_by = "none"
    /\ atp_result = NoResult
    /\ PipelineIdle /\ DispatchIdle /\ LedgerIdle /\ CallersIdle /\ SnapshotIdle
    /\ BatchIdle /\ RequestIdle

DispatchConfirmation ==
    /\ Len(dispatches) < MaxDispatches
    /\ \E first_ok \in BOOLEAN, retry_ok \in BOOLEAN :
         dispatches' = Append(dispatches,
            dispatch_confirmation(order_line.order_id, order_line, config,
                                  first_ok, retry_ok))
    /\ UNCHANGED <<atp_vars, pipeline_vars, ledger_vars, caller_vars, snapshot_vars, batch_vars, request_vars>>

NextDispatch == DispatchConfirmation

SpecDispatch == InitDispatch /\ [][NextDispatch]_vars

----------------------------------------------------------------------------
(* AuditLoggerAgent, src/Confirm_Order_Process.py *)

MaxLogs == 3         \* most ledger entries in the ledger specification
MaxClock == 2        \* last clock tick
BurstLogs == 11      \* most ledger entries in the burst specification

Orders == {"O1", "O2"}
Statuses == {"SUCCESS"}

\* Strings are sequences of character codes: "0".."9" are 48..57, "-" is 45.
RECURSIVE DecimalDigits(_)
DecimalDigits(n) ==
    IF n < 10 THEN <<48 + n>>
    ELSE DecimalDigits(n \div 10) \o <<48 + (n % 10)>>

ZeroPad(str, width) ==
    IF Len(str) >= width THEN str
    ELSE [i \in 1..(width - Len(str)) |-> 48] \o str

\* datetime.strftime('%Y%m%d%H%M%S%f'): 20 zero-padded digits, so that the
\* text of a later instant sorts after the text of an earlier one
strftime(t) == ZeroPad(DecimalDigits(t), 20)

\* f"LOG-{now.strftime(...)}-{len(self.logs)}"
LogId(now, ledger) ==
    <<76, 79, 71, 45>> \o strftime(now) \o <<45>> \o DecimalDigits(Len(ledger))

\* str < str in Python: lexicographic on character codes
RECURSIVE StrLess(_, _)
StrLess(a, b) ==
    IF b = <<>> THEN FALSE
    ELSE IF a = <<>> THEN TRUE
    ELSE IF Head(a) # Head(b) THEN Head(a) < Head(b)
    ELSE StrLess(Tail(a), Tail(b))

AuditLog(log_id, timestamp, order_id, status, duration_ms) ==
    [log_id |-> log_id, timestamp |-> timestamp, order_id |-> order_id,
     status |-> status, duration_ms |-> duration_ms]

MutAppendLog(ledger, log) == <<log>> \o ledger
AppendLog(ledger, log) == Append(ledger, log)

\* log_action reads datetime.now() twice, for log_id and for timestamp: elapsed
\* is the number of ticks between the two reads.
LogAction(order_id, status, duration_ms, elapsed) ==
    /\ clock + elapsed <= MaxClock
    /\ LET log == AuditLog(LogId(clock, logs), clock + elapsed, order_id,
                           status, duration_ms)
       IN  /\ logs' = AppendLog(logs, log)
           /\ ret' = log
    /\ clock' = clock + elapsed
    /\ last_op' = "log_action"
    /\ UNCHANGED <<trail_arg, export_file>>
    /\ UNCHANGED <<atp_vars, pipeline_vars, dispatch_vars, caller_vars, snapshot_vars, batch_vars, request_vars>>

\* "if order_id:" is false for None and for the empty string
EmptyOrderId == ""

Falsy(order_id) == order_id \in {NoOrderId, EmptyOrderId}

MutGetAuditTrail(ledger, order_id) ==
    SelectSeq(ledger, LAMBDA log: log.order_id = order_id)
get_audit_trail(ledger, order_id) ==
    IF ~Falsy(order_id)
    THEN SelectSeq(ledger, LAMBDA log: log.order_id = order_id)
    ELSE ledger

GetAuditTrail ==
    /\ \E order_id \in Orders \cup {NoOrderId, EmptyOrderId} :
         /\ ret' = get_audit_trail(logs, order_id)
         /\ trail_arg' = order_id
    /\ last_op' = "get_audit_trail"
    /\ UNCHANGED <<logs, clock, export_file>>
    /\ UNCHANGED <<atp_vars, pipeline_vars, dispatch_vars, caller_vars, snapshot_vars, batch_vars, request_vars>>

\* _serialize(log): the timestamp becomes its text, the other fields are kept
MutSerializeLog(log) == [log EXCEPT !.timestamp = strftime(clock)]
serialize_log(log) == [log EXCEPT !.timestamp = strftime(log.timestamp)]

\* [self._serialize(log) for log in self.logs]
serialize_logs(ledger) == [i \in 1..Len(ledger) |-> serialize_log(ledger[i])]

\* export_logs serializes the ledger and writes the file; when open() raises,
\* nothing is written and the file stays as it was
ExportLogs ==
    /\ \E written \in BOOLEAN :
         /\ ret' = IF written THEN serialize_logs(logs) ELSE <<"IOError">>
         /\ export_file' = IF written
                           THEN [written |-> TRUE, content |-> serialize_logs(logs)]
                           ELSE export_file
    /\ last_op' = "export_logs"
    /\ UNCHANGED <<logs, clock, trail_arg>>
    /\ UNCHANGED <<atp_vars, pipeline_vars, dispatch_vars, caller_vars, snapshot_vars, batch_vars, request_vars>>

Tick ==
    /\ clock < MaxClock
    /\ clock' = clock + 1
    /\ last_op' = "tick"
    /\ UNCHANGED <<logs, ret, trail_arg, export_file>>
    /\ UNCHANGED <<atp_vars, pipeline_vars, dispatch_vars, caller_vars, snapshot_vars, batch_vars, request_vars>>

InitLedger ==
    /\ order_line = NoResult
    /\ inventory = <<>>
    /\ purchase_orders = <<>>
    /\ config = NoResult
    /\ atp_by = "none"
    /\ atp_result = NoResult
    /\ PipelineIdle /\ DispatchIdle /\ LedgerIdle /\ CallersIdle /\ SnapshotIdle
    /\ BatchIdle /\ RequestIdle

LedgerLog ==
    /\ Len(logs) < MaxLogs
    /\ \E order_id \in Orders, status \in Statuses, elapsed \in 0..1 :
         LogAction(order_id, status, 0, elapsed)

NextLedger == LedgerLog \/ GetAuditTrail \/ ExportLogs \/ Tick

SpecLedger == InitLedger /\ [][NextLedger]_vars

\* Many entries logged in a row, as the loops of process_orders do
BurstLog ==
    /\ Len(logs) < BurstLogs
    /\ \E elapsed \in 0..1 :
         LogAction("O1", "SUCCESS", 0, elapsed)

NextBurst == BurstLog \/ Tick

SpecBurst == InitLedger /\ [][NextBurst]_vars

----------------------------------------------------------------------------
(* log_action called by concurrent callers on one AuditLoggerAgent.  The    *)
(* method takes no lock: a caller can be preempted between computing its   *)
(* log_id (which reads len(self.logs)) and self.logs.append(log).          *)

CallsPerCaller == 2  \* log_action calls each concurrent caller makes

Callers == Orders    \* each caller logs for its own order

InitCallers ==
    /\ order_line = NoResult
    /\ inventory = <<>>
    /\ purchase_orders = <<>>
    /\ config = NoResult
    /\ atp_by = "none"
    /\ atp_result = NoResult
    /\ PipelineIdle /\ DispatchIdle /\ LedgerIdle
    /\ BatchIdle /\ RequestIdle /\ SnapshotIdle
    /\ caller_pc = [c \in Callers |-> "idle"]
    /\ caller_log_id = [c \in Callers |-> <<>>]
    /\ caller_calls = [c \in Callers |-> 0]

\* log_id = f"LOG-...-{len(self.logs)}"
CallerComputeId(c) ==
    /\ caller_pc[c] = "idle"
    /\ caller_calls[c] < CallsPerCaller
    /\ caller_log_id' = [caller_log_id EXCEPT ![c] = LogId(clock, logs)]
    /\ caller_calls' = [caller_calls EXCEPT ![c] = @ + 1]
    /\ caller_pc' = [caller_pc EXCEPT ![c] = "append"]
    /\ UNCHANGED <<atp_vars, pipeline_vars, dispatch_vars, ledger_vars,
                   batch_vars, request_vars, snapshot_vars>>

\* log = AuditLog(...); self.logs.append(log); return log
\* duration_ms carries the number of the call, to tell a caller's entries apart
CallerAppend(c) ==
    /\ caller_pc[c] = "append"
    /\ LET log == AuditLog(caller_log_id[c], clock, c, "SUCCESS", caller_calls[c])
       IN  /\ logs' = AppendLog(logs, log)
           /\ ret' = log
    /\ last_op' = "log_action"
    /\ caller_pc' = [caller_pc EXCEPT ![c] = "idle"]
    /\ UNCHANGED <<clock, trail_arg, export_file, caller_log_id, caller_calls>>
    /\ UNCHANGED <<atp_vars, pipeline_vars, dispatch_vars, batch_vars, request_vars,
                   snapshot_vars>>

ComputeId == \E c \in Callers : CallerComputeId(c)
AppendEntry == \E c \in Callers : CallerAppend(c)

NextCallers == ComputeId \/ AppendEntry \/ Tick

SpecCallers == InitCallers /\ [][NextCallers]_vars

----------------------------------------------------------------------------
(* calculate_atp called repeatedly on the lines of one batch, by             *)
(* ATPEngine.batch_calculate_atp and ATPCheckerAgent.process_batch or by a  *)
(* caller that asks again, on the same snapshots.  atp_results records the  *)
(* calls in the order they were made.                                      *)

MaxBatchPO == 2      \* most purchase orders where their order matters
MaxCalls == 3        \* most calculate_atp calls on one batch

RepeatLines ==
    <<[order_id |-> "O1", line_id |-> "L1", item |-> "A", quantity |-> 1,
       requested_date |-> 6, ship_from |-> NoShipFrom, priority |-> "NORMAL",
       window |-> FALSE, allow_partial |-> TRUE],
      [order_id |-> "O1", line_id |-> "L2", item |-> "A", quantity |-> MaxQty,
       requested_date |-> 3, ship_from |-> NoShipFrom, priority |-> "NORMAL",
       window |-> FALSE, allow_partial |-> TRUE]>>

RepeatRows ==
    {r \in InventoryRows :
        r.item = "A" /\ r.location = "MAIN" /\ r.safety_stock_qty = 0}

RepeatPORows ==
    {p \in PORows : p.item = "A" /\ p.location = "MAIN" /\ p.confirmed}

\* what the caller's purchase_orders list is after a call: calculate_atp
\* filters it into a new list and sorts that one, so the caller's list keeps
\* its order
MutCallerPurchaseOrders(pos) == SortByDate(pos)
CallerPurchaseOrders(pos) == pos

InitRepeat ==
    /\ order_line = NoResult
    /\ inventory \in SeqsUpTo(RepeatRows, MaxInv)
    /\ purchase_orders \in SeqsUpTo(RepeatPORows, MaxBatchPO)
    /\ config \in Configs
    /\ atp_by = "none"
    /\ atp_result = NoResult
    /\ PipelineIdle /\ DispatchIdle /\ LedgerIdle /\ CallersIdle /\ SnapshotIdle /\ RequestIdle
    /\ order_lines = RepeatLines
    /\ atp_results = <<>>
    /\ schedules = <<>> /\ split_decisions = <<>> /\ confirmations = <<>>
    /\ stage = "none"

RepeatEngineCalculate ==
    /\ Len(atp_results) < MaxCalls
    /\ \E i \in 1..Len(order_lines) :
         atp_results' = Append(atp_results,
            [by |-> "ATPEngine", line |-> i,
             result |-> ATPEngine_calculate_atp(order_lines[i], inventory,
                                                purchase_orders, config)])
    /\ purchase_orders' = CallerPurchaseOrders(purchase_orders)
    /\ UNCHANGED <<order_line, inventory, config, atp_by, atp_result>>
    /\ UNCHANGED <<order_lines, schedules, split_decisions, confirmations, stage>>
    /\ UNCHANGED <<pipeline_vars, dispatch_vars, ledger_vars, caller_vars, snapshot_vars, request_vars>>

RepeatAgentCalculate ==
    /\ Len(atp_results) < MaxCalls
    /\ \E i \in 1..Len(order_lines) :
         atp_results' = Append(atp_results,
            [by |-> "ATPCheckerAgent", line |-> i,
             result |-> ATPCheckerAgent_calculate_atp(order_lines[i], inventory,
                                                      purchase_orders, config)])
    /\ UNCHANGED <<order_line, inventory, purchase_orders, config, atp_by, atp_result>>
    /\ UNCHANGED <<order_lines, schedules, split_decisions, confirmations, stage>>
    /\ UNCHANGED <<pipeline_vars, dispatch_vars, ledger_vars, caller_vars, snapshot_vars, request_vars>>

NextRepeat == RepeatEngineCalculate \/ RepeatAgentCalculate

SpecRepeat == InitRepeat /\ [][NextRepeat]_vars

----------------------------------------------------------------------------
(* Availability computations where several purchase orders of differing     *)
(* quantity and date are open and at most one inventory row exists          *)

PORichRows ==
    {p \in [item: Items, location: Locations, quantity: 1..MaxQty,
            expected_delivery_date: PODates, confirmed: BOOLEAN] :
        (p.item # "A" \/ p.location # "MAIN") =>
            /\ p.quantity = MaxQty /\ p.confirmed /\ p.expected_delivery_date = 1
            /\ (p.item = "A" \/ p.location = "MAIN")}

POStockRows ==
    {r \in InventoryRows : r.item = "A" /\ r.location = "MAIN"}

InitPO ==
    /\ order_line \in EngineLines
    /\ inventory \in {<<>>} \cup {<<r>> : r \in POStockRows}
    /\ purchase_orders \in SeqsUpTo(PORichRows, MaxBatchPO)
    /\ config \in Configs
    /\ atp_by = "none"
    /\ atp_result = NoResult
    /\ PipelineIdle /\ DispatchIdle /\ LedgerIdle /\ CallersIdle /\ SnapshotIdle
    /\ BatchIdle /\ RequestIdle

SpecPO == InitPO /\ [][NextATP]_vars

----------------------------------------------------------------------------
(* OrderConfirmationOrchestrator.process_orders on a batch of order lines,  *)
(* src/Confirm_Order_Process.py.  Each stage handles the whole batch and    *)
(* logs one ledger entry per result; no stage catches an exception, so an   *)
(* exception raised for one line leaves process_orders.                    *)

max_splits_per_order == 3
min_split_quantity == 5

NoDate == Today - 1      \* requested_date None: no day number of a real date

KeyOf(x) == <<x.order_id, x.line_id>>

BatchKeys == {<<"O1", "L1">>, <<"O2", "L1">>, <<"O1", "L2">>}

BatchLines ==
    {[order_id |-> k[1], line_id |-> k[2], item |-> "A", quantity |-> q,
      requested_date |-> d, ship_from |-> "WAREHOUSE_01",
      priority |-> "PRIORITY", window |-> FALSE, allow_partial |-> TRUE] :
        k \in BatchKeys, q \in {1, MaxQty}, d \in {3, NoDate}}

\* the non-empty batches in which every line has its own (order id, line id)
Batches ==
    {b \in SeqsUpTo(BatchLines, Cardinality(BatchKeys)) :
        /\ b # <<>>
        /\ \A i, j \in 1..Len(b) : i # j => KeyOf(b[i]) # KeyOf(b[j])}

SystemConfig ==
    [allow_partial_ship |-> TRUE, consider_unconfirmed_pos |-> FALSE,
     max_retry_attempts |-> 3]

\* next(x for x in seq if ...): the element at the first of the positions S
FirstAt(seq, S) == seq[CHOOSE i \in S : \A j \in S : i <= j]

line_of(lines, result) ==
    FirstAt(lines, {i \in 1..Len(lines) :
                      /\ lines[i].order_id = result.order_id
                      /\ lines[i].line_id = result.line_id})

\* ATPCheckerAgent.calculate_atp raises TypeError for a line without a
\* requested date wherever it adds days to that date or compares a date to it
AgentRaises(ol, inv, pos, cfg) ==
    LET matching == SelectSeq(inv, LAMBDA r: r.item = ol.item)
        stock == Max(0, Head(matching).on_hand_qty - Head(matching).safety_stock_qty)
    IN  /\ ol.requested_date = NoDate
        /\ \/ matching = <<>>
           \/ /\ stock < ol.quantity
              /\ ~(stock > 0 /\ cfg.allow_partial_ship)

\* schedule_delivery raises TypeError when it adds the transit days to a
\* missing ship date
ScheduleRaises(atp) == atp.earliest_available_date = NoDate

\* the ledger after log_action was called once per entry, in order
RECURSIVE LogAll(_, _, _)
LogAll(ledger, now, entries) ==
    IF entries = <<>> THEN ledger
    ELSE LogAll(AppendLog(ledger,
                    AuditLog(LogId(now, ledger), now, Head(entries).order_id,
                             Head(entries).status, 0)),
                now, Tail(entries))

LogStage(entries) ==
    /\ logs' = LogAll(logs, clock, entries)
    /\ ret' = logs'[Len(logs')]
    /\ last_op' = "log_action"
    /\ UNCHANGED <<clock, trail_arg, export_file>>

SuccessEntries(results) ==
    [i \in 1..Len(results) |->
        [order_id |-> results[i].order_id, status |-> "SUCCESS"]]

\* str(date): the ISO text of ten characters
DateStr(d) == ZeroPad(DecimalDigits(d), 10)

\* the keys of the orders dict of compose_confirmation, in insertion order
RECURSIVE MutOrderIdsOf(_)
MutOrderIdsOf(lines) ==
    IF lines = <<>> THEN <<>>
    ELSE LET rest == MutOrderIdsOf(SubSeq(lines, 1, Len(lines) - 1))
             last == lines[Len(lines)].order_id
         IN  IF rest # <<>> /\ rest[Len(rest)] = last
             THEN rest ELSE Append(rest, last)
RECURSIVE OrderIdsOf(_)
OrderIdsOf(lines) ==
    IF lines = <<>> THEN <<>>
    ELSE LET rest == OrderIdsOf(SubSeq(lines, 1, Len(lines) - 1))
             last == lines[Len(lines)].order_id
         IN  IF \E i \in 1..Len(rest) : rest[i] = last
             THEN rest ELSE Append(rest, last)

\* the shipment_details of the split decisions of one order
RECURSIVE MutShipmentDetails(_)
MutShipmentDetails(order_splits) ==
    IF order_splits = <<>> THEN <<>>
    ELSE LET split == Head(order_splits)
         IN  MutShipmentDetails(Tail(order_splits))
             \o [k \in 1..Len(split.shipments) |->
                   [line_id |-> split.line_id, item |-> split.item,
                    quantity |-> split.shipments[k].quantity,
                    ship_date |-> DateStr(split.shipments[k].ship_date),
                    delivery_date |-> DateStr(split.shipments[k].delivery_date),
                    carrier |-> split.shipments[k].carrier,
                    status |-> split.shipments[k].status]]
RECURSIVE ShipmentDetails(_)
ShipmentDetails(order_splits) ==
    IF order_splits = <<>> THEN <<>>
    ELSE LET split == Head(order_splits)
         IN  [k \in 1..Len(split.shipments) |->
                [line_id |-> split.line_id, item |-> split.item,
                 quantity |-> split.shipments[k].quantity,
                 ship_date |-> DateStr(split.shipments[k].ship_date),
                 delivery_date |-> DateStr(split.shipments[k].delivery_date),
                 carrier |-> split.shipments[k].carrier,
                 status |-> split.shipments[k].status]]
             \o ShipmentDetails(Tail(order_splits))

compose_confirmation(lines, decisions, now) ==
    LET ids == OrderIdsOf(lines)
    IN  [n \in 1..Len(ids) |->
            LET order_id == ids[n]
                of_order == SelectSeq(lines, LAMBDA ol: ol.order_id = order_id)
                order_splits == SelectSeq(decisions, LAMBDA sd: sd.order_id = order_id)
                details == ShipmentDetails(order_splits)
            IN  [order_id |-> order_id,
                 confirmation_number |-> [order_id |-> order_id, stamp |-> strftime(now)],
                 total_lines |-> Len(of_order),
                 total_shipments |-> Len(details),
                 shipment_details |-> details]]

\* schedules[i] in SplitShipmentAgent.process_batch
MutScheduleAt(scheds, i) == scheds[1]
ScheduleAt(scheds, i) == scheds[i]

InitOrders ==
    /\ order_line = NoResult
    /\ inventory \in {<<r>> : r \in RepeatRows}
    /\ purchase_orders = <<>>
    /\ config = SystemConfig
    /\ atp_by = "none"
    /\ atp_result = NoResult
    /\ PipelineIdle /\ DispatchIdle /\ LedgerIdle /\ CallersIdle /\ SnapshotIdle /\ RequestIdle
    /\ order_lines \in Batches
    /\ atp_results = <<>> /\ schedules = <<>> /\ split_decisions = <<>>
    /\ confirmations = <<>>
    /\ stage = "start"

\* an exception leaves process_orders: nothing is returned
Raise ==
    /\ stage' = "raised"
    /\ UNCHANGED <<order_lines, atp_results, schedules, split_decisions, confirmations>>
    /\ UNCHANGED <<atp_vars, pipeline_vars, dispatch_vars, ledger_vars,
                   caller_vars, snapshot_vars, request_vars>>

OrdersATPCheck ==
    /\ stage = "start"
    /\ IF \E i \in 1..Len(order_lines) :
             AgentRaises(order_lines[i], inventory, purchase_orders, config)
       THEN Raise
       ELSE /\ atp_results' =
                 [i \in 1..Len(order_lines) |->
                     ATPCheckerAgent_calculate_atp(order_lines[i], inventory,
                                                   purchase_orders, config)]
            /\ LogStage(SuccessEntries(atp_results'))
            /\ stage' = "atp"
            /\ UNCHANGED <<order_lines, schedules, split_decisions, confirmations>>
            /\ UNCHANGED <<atp_vars, pipeline_vars, dispatch_vars, caller_vars, snapshot_vars,
                           request_vars>>

OrdersSchedule ==
    /\ stage = "atp"
    /\ IF \E i \in 1..Len(atp_results) : ScheduleRaises(atp_results[i])
       THEN Raise
       ELSE /\ \E carrier \in [1..Len(atp_results) -> DOMAIN carrier_transit_times] :
                 \E transit_days \in [1..Len(atp_results) -> 1..7] :
                    /\ \A i \in 1..Len(atp_results) :
                          /\ carrier[i] \in CarrierChoices(
                                line_of(order_lines, atp_results[i]).priority)
                          /\ transit_days[i] \in TransitChoices(carrier[i])
                    /\ schedules' =
                          [i \in 1..Len(atp_results) |->
                              schedule_delivery(atp_results[i],
                                  line_of(order_lines, atp_results[i]),
                                  carrier[i], transit_days[i])]
            /\ LogStage(SuccessEntries(schedules'))
            /\ stage' = "scheduled"
            /\ UNCHANGED <<order_lines, atp_results, split_decisions, confirmations>>
            /\ UNCHANGED <<atp_vars, pipeline_vars, dispatch_vars, caller_vars, snapshot_vars,
                           request_vars>>

OrdersSplit ==
    /\ stage = "scheduled"
    /\ split_decisions' =
          [i \in 1..Len(atp_results) |->
              evaluate_split(atp_results[i], ScheduleAt(schedules, i),
                             line_of(order_lines, atp_results[i]))]
    /\ LogStage(SuccessEntries(split_decisions'))
    /\ stage' = "split"
    /\ UNCHANGED <<order_lines, atp_results, schedules, confirmations>>
    /\ UNCHANGED <<atp_vars, pipeline_vars, dispatch_vars, caller_vars, snapshot_vars, request_vars>>

OrdersCompose ==
    /\ stage = "split"
    /\ confirmations' = compose_confirmation(order_lines, split_decisions, clock)
    /\ LogStage(SuccessEntries(confirmations'))
    /\ stage' = "composed"
    /\ UNCHANGED <<order_lines, atp_results, schedules, split_decisions>>
    /\ UNCHANGED <<atp_vars, pipeline_vars, dispatch_vars, caller_vars, snapshot_vars, request_vars>>

OrdersDispatch ==
    /\ stage = "composed"
    /\ \E first_ok \in [1..Len(confirmations) -> BOOLEAN] :
         \E retry_ok \in [1..Len(confirmations) -> BOOLEAN] :
            dispatches' =
               [n \in 1..Len(confirmations) |->
                   dispatch_confirmation(confirmations[n].order_id,
                       FirstAt(order_lines,
                           {i \in 1..Len(order_lines) :
                               order_lines[i].order_id = confirmations[n].order_id}),
                       config, first_ok[n], retry_ok[n])]
    /\ LogStage([n \in 1..Len(dispatches') |->
                    [order_id |-> dispatches'[n].order_id,
                     status |-> dispatches'[n].status]])
    /\ stage' = "dispatched"
    /\ UNCHANGED <<order_lines, atp_results, schedules, split_decisions, confirmations>>
    /\ UNCHANGED <<atp_vars, pipeline_vars, caller_vars, snapshot_vars, request_vars>>

OrdersAudit ==
    /\ stage = "dispatched"
    /\ ret' = get_audit_trail(logs, NoOrderId)
    /\ trail_arg' = NoOrderId
    /\ last_op' = "get_audit_trail"
    /\ stage' = "done"
    /\ UNCHANGED <<logs, clock, export_file>>
    /\ UNCHANGED <<order_lines, atp_results, schedules, split_decisions, confirmations>>
    /\ UNCHANGED <<atp_vars, pipeline_vars, dispatch_vars, caller_vars, snapshot_vars, request_vars>>

NextOrders ==
    \/ OrdersATPCheck \/ OrdersSchedule \/ OrdersSplit
    \/ OrdersCompose \/ OrdersDispatch \/ OrdersAudit

SpecOrders == InitOrders /\ [][NextOrders]_vars

----------------------------------------------------------------------------
(* Ingestion of order lines and the fetch of ERP data in front of            *)
(* ATPEngine.batch_calculate_atp: ATPCheckerAgent._execute_atp_check of      *)
(* src/atp_agent.py with ERPIntegration of src/erp_integration.py, and      *)
(* ExcelManager.read_orders_from_excel with process_batch_silent of         *)
(* src/ATP_Checker_Agent.py.                                                *)

MaxRequestLines == 2     \* most order-line records of one request
fallback_lead_time_days == 14

NullItem == "None"       \* JSON null, or an empty Excel cell
AbsentKey == "absent"    \* the record has no item key / the sheet no Item column

RawLines ==
    [order_id: {"O1"}, line_id: {"L1"}, item: {"WIDGET-A", NullItem, AbsentKey},
     quantity: (0 - 1)..1, requested_date: {3}]

Requests == SeqsUpTo(RawLines, MaxRequestLines) \ {<<>>}

ATPConfigDefaults ==
    [allow_partial_ship |-> TRUE, consider_unconfirmed_pos |-> FALSE,
     max_retry_attempts |-> 3]

\* DataManager.get_sample_inventory / get_sample_purchase_orders, for the item
SampleInventories ==
    {<<[item |-> "WIDGET-A", location |-> "MAIN", on_hand_qty |-> h,
        safety_stock_qty |-> 10]>> : h \in {20, 300}}

SamplePurchaseOrders ==
    <<[item |-> "WIDGET-A", location |-> "MAIN", quantity |-> 50,
       expected_delivery_date |-> Today + 5, confirmed |-> TRUE]>>

\* what the ERP answers when the call succeeds
ErpInventories ==
    {<<>>, <<[item |-> "WIDGET-A", location |-> "MAIN", on_hand_qty |-> 1,
              safety_stock_qty |-> 0]>>}

ErpPurchaseOrders ==
    {<<>>, <<[item |-> "WIDGET-A", location |-> "MAIN", quantity |-> 1,
              expected_delivery_date |-> Today + 1, confirmed |-> TRUE]>>}

ItemsOf(lines) == {lines[i].item : i \in 1..Len(lines)}

_get_mock_inventory(items) ==
    SelectSeq(<<[item |-> "WIDGET-A", location |-> "MAIN", on_hand_qty |-> 100,
                 safety_stock_qty |-> 20],
                [item |-> "WIDGET-B", location |-> "MAIN", on_hand_qty |-> 50,
                 safety_stock_qty |-> 10],
                [item |-> "WIDGET-C", location |-> "MAIN", on_hand_qty |-> 5,
                 safety_stock_qty |-> 15]>>,
              LAMBDA inv: items = {} \/ inv.item \in items)

_get_mock_purchase_orders(items) ==
    SelectSeq(<<[item |-> "WIDGET-C", location |-> "MAIN", quantity |-> 100,
                 expected_delivery_date |-> Today + 7, confirmed |-> TRUE],
                [item |-> "WIDGET-A", location |-> "MAIN", quantity |-> 200,
                 expected_delivery_date |-> Today + 14, confirmed |-> TRUE]>>,
              LAMBDA po: items = {} \/ po.item \in items)

\* OrderLine(...) of _execute_atp_check: int(quantity), item as given
ParseJsonLine(line_data) ==
    [order_id |-> line_data.order_id, line_id |-> line_data.line_id,
     item |-> line_data.item, quantity |-> line_data.quantity,
     requested_date |-> line_data.requested_date, ship_from |-> NoShipFrom,
     priority |-> "None", window |-> FALSE, allow_partial |-> TRUE]

\* OrderLine(...) of read_orders_from_excel: str(row['Item']) of an empty cell
\* is "nan"
ParseExcelRow(row) ==
    [order_id |-> row.order_id, line_id |-> row.line_id,
     item |-> IF row.item = NullItem THEN "nan" ELSE row.item,
     quantity |-> row.quantity, requested_date |-> row.requested_date,
     ship_from |-> "MAIN", priority |-> "NORMAL", window |-> FALSE,
     allow_partial |-> TRUE]

batch_calculate_atp(lines, inv, pos, cfg) ==
    [i \in 1..Len(lines) |-> ATPEngine_calculate_atp(lines[i], inv, pos, cfg)]

ErrorResponse(error) == [kind |-> "error", error |-> error, results |-> <<>>]
ResultsResponse(results) == [kind |-> "results", error |-> "", results |-> results]

InitRequest ==
    /\ order_line = NoResult
    /\ inventory \in SampleInventories
    /\ purchase_orders = SamplePurchaseOrders
    /\ config = ATPConfigDefaults
    /\ atp_by = "none"
    /\ atp_result = NoResult
    /\ PipelineIdle /\ DispatchIdle /\ LedgerIdle /\ CallersIdle /\ SnapshotIdle
    /\ order_lines = <<>> /\ atp_results = <<>> /\ schedules = <<>>
    /\ split_decisions = <<>> /\ confirmations = <<>>
    /\ stage = "start"
    /\ request \in Requests
    /\ erp_failed = {}
    /\ response = NoResult
    /\ lead_time = NoResult

\* the except clause of _execute_atp_check, or an exception that leaves
\* read_orders_from_excel
Fail(error) ==
    /\ response' = ErrorResponse(error)
    /\ stage' = "done"
    /\ UNCHANGED <<order_lines, atp_results, schedules, split_decisions, confirmations>>
    /\ UNCHANGED <<request, erp_failed, lead_time>>
    /\ UNCHANGED <<atp_vars, pipeline_vars, dispatch_vars, ledger_vars, caller_vars, snapshot_vars>>

ParseRequest ==
    /\ stage = "start"
    /\ IF \E i \in 1..Len(request) : request[i].item = AbsentKey
       THEN Fail("KeyError")
       ELSE /\ order_lines' = [i \in 1..Len(request) |-> ParseJsonLine(request[i])]
            /\ stage' = "parsed"
            /\ UNCHANGED <<atp_results, schedules, split_decisions, confirmations>>
            /\ UNCHANGED request_vars
            /\ UNCHANGED <<atp_vars, pipeline_vars, dispatch_vars, ledger_vars,
                           caller_vars, snapshot_vars>>

\* get_inventory_snapshot(items): ','.join(items) raises TypeError for a None
\* item before the request is sent; a RequestException is answered with the
\* mock rows
FetchInventory ==
    /\ stage = "parsed"
    /\ IF NullItem \in ItemsOf(order_lines)
       THEN Fail("TypeError")
       ELSE /\ \E ok \in BOOLEAN :
                 /\ inventory' \in IF ok THEN ErpInventories
                                  ELSE {_get_mock_inventory(ItemsOf(order_lines))}
                 /\ erp_failed' = IF ok THEN erp_failed
                                  ELSE erp_failed \cup {"inventory"}
            /\ stage' = "inventory"
            /\ UNCHANGED <<order_line, purchase_orders, config, atp_by, atp_result>>
            /\ UNCHANGED batch_vars_but_stage
            /\ UNCHANGED <<request, response, lead_time>>
            /\ UNCHANGED <<pipeline_vars, dispatch_vars, ledger_vars, caller_vars, snapshot_vars>>

FetchPurchaseOrders ==
    /\ stage = "inventory"
    /\ \E ok \in BOOLEAN :
         /\ purchase_orders' \in IF ok THEN ErpPurchaseOrders
                                 ELSE {_get_mock_purchase_orders(ItemsOf(order_lines))}
         /\ erp_failed' = IF ok THEN erp_failed
                          ELSE erp_failed \cup {"purchase_orders"}
    /\ stage' = "fetched"
    /\ UNCHANGED <<order_line, inventory, config, atp_by, atp_result>>
    /\ UNCHANGED batch_vars_but_stage
    /\ UNCHANGED <<request, response, lead_time>>
    /\ UNCHANGED <<pipeline_vars, dispatch_vars, ledger_vars, caller_vars, snapshot_vars>>

\* read_orders_from_excel, then process_batch_silent on the agent's own
\* inventory and purchase orders
ReadOrdersFromExcel ==
    /\ stage = "start"
    /\ IF \E i \in 1..Len(request) : request[i].item = AbsentKey
       THEN Fail("KeyError")
       ELSE /\ order_lines' = [i \in 1..Len(request) |-> ParseExcelRow(request[i])]
            /\ stage' = "fetched"
            /\ UNCHANGED <<atp_results, schedules, split_decisions, confirmations>>
            /\ UNCHANGED request_vars
            /\ UNCHANGED <<atp_vars, pipeline_vars, dispatch_vars, ledger_vars,
                           caller_vars, snapshot_vars>>

BatchCalculate ==
    /\ stage = "fetched"
    /\ atp_results' = batch_calculate_atp(order_lines, inventory, purchase_orders, config)
    /\ response' = ResultsResponse(atp_results')
    /\ stage' = "done"
    /\ UNCHANGED <<order_lines, schedules, split_decisions, confirmations>>
    /\ UNCHANGED <<request, erp_failed, lead_time>>
    /\ UNCHANGED <<atp_vars, pipeline_vars, dispatch_vars, ledger_vars, caller_vars, snapshot_vars>>

\* get_lead_time: data.get('lead_time_days', 14), and 14 after a
\* RequestException
GetLeadTime ==
    /\ lead_time = NoResult
    /\ \E ok \in BOOLEAN :
         /\ lead_time' \in IF ok
                           THEN {[lead_time_days |-> 7],
                                 [lead_time_days |-> fallback_lead_time_days]}
                           ELSE {[lead_time_days |-> fallback_lead_time_days]}
         /\ erp_failed' = IF ok THEN erp_failed ELSE erp_failed \cup {"lead_time"}
    /\ UNCHANGED <<request, response>>
    /\ UNCHANGED batch_vars
    /\ UNCHANGED <<atp_vars, pipeline_vars, dispatch_vars, ledger_vars, caller_vars, snapshot_vars>>

NextRequest ==
    \/ ParseRequest \/ FetchInventory \/ FetchPurchaseOrders
    \/ ReadOrdersFromExcel \/ BatchCalculate \/ GetLeadTime

SpecRequest == InitRequest /\ [][NextRequest]_vars

----------------------------------------------------------------------------
(* AuditLoggerAgent._serialize on objects the caller goes on using,         *)
(* src/Confirm_Order_Process.py                                             *)

MaxSnapshots == 2    \* most log_action calls in the snapshot specification
MaxEdits == 2        \* most assignments the caller makes to the dict's key

\* A value is a reference to an object of the heap or an immutable date; the
\* heap holds a dict with one key, a list, an entity (an object with a
\* __dict__) and an outer entity whose attribute is the entity.
Ref(r) == [kind |-> "ref", ref |-> r]
DateValue(d) == [kind |-> "date", day |-> d]

Objects == {"d", "l", "e", "o"}

\* what log_action can be handed as input_data or output_data
Arguments == {Ref(r) : r \in Objects} \cup {DateValue(3)}

\* the content a value has at the moment, which str(obj) renders
RECURSIVE Deep(_, _)
Deep(v, h) ==
    IF v.kind # "ref" THEN v
    ELSE LET obj == h[v.ref]
         IN  IF obj.type = "dict" THEN [kind |-> "dict", value |-> obj.value]
             ELSE IF obj.type = "list"
             THEN [kind |-> "list",
                   items |-> [k \in 1..Len(obj.items) |-> Deep(obj.items[k], h)]]
             ELSE [kind |-> "entity",
                   attrs |-> [k \in 1..Len(obj.attrs) |-> Deep(obj.attrs[k], h)]]

\* isinstance(obj, list) and hasattr(obj, '__dict__')
IsList(v, h) == v.kind = "ref" /\ h[v.ref].type = "list"
HasDict(v, h) == v.kind = "ref" /\ h[v.ref].type = "entity"

\* A list becomes a new list and an entity a new dict, both owned by the
\* ledger entry; an attribute value that is no date, list or entity is stored
\* as it is, a reference included; anything else becomes its str() text.
RECURSIVE _serialize(_, _)
_serialize(obj, h) ==
    IF IsList(obj, h)
    THEN [kind |-> "list",
          items |-> [k \in 1..Len(h[obj.ref].items) |->
                        _serialize(h[obj.ref].items[k], h)]]
    ELSE IF HasDict(obj, h)
    THEN [kind |-> "fields",
          entries |-> [k \in 1..Len(h[obj.ref].attrs) |->
                        LET value == h[obj.ref].attrs[k]
                        IN  IF value.kind = "date"
                            THEN [kind |-> "str", text |-> value]
                            ELSE IF IsList(value, h) \/ HasDict(value, h)
                            THEN _serialize(value, h)
                            ELSE value]]
    ELSE [kind |-> "str", text |-> Deep(obj, h)]

InitSnapshot ==
    /\ order_line = NoResult
    /\ inventory = <<>>
    /\ purchase_orders = <<>>
    /\ config = NoResult
    /\ atp_by = "none"
    /\ atp_result = NoResult
    /\ PipelineIdle /\ DispatchIdle /\ LedgerIdle /\ CallersIdle
    /\ BatchIdle /\ RequestIdle
    /\ \E items \in {<<>>, <<Ref("d")>>, <<DateValue(3)>>, <<DateValue(3), Ref("d")>>},
          attrs \in {<<Ref("d")>>, <<Ref("l")>>, <<DateValue(3)>>,
                     <<DateValue(3), Ref("d")>>} :
          heap = [d |-> [type |-> "dict", value |-> 0],
                  l |-> [type |-> "list", items |-> items],
                  e |-> [type |-> "entity", attrs |-> attrs],
                  o |-> [type |-> "entity", attrs |-> <<Ref("e")>>]]
    /\ recorded = <<>>

SnapshotLog ==
    /\ Len(logs) < MaxSnapshots
    /\ \E input_data \in Arguments, output_data \in {Ref("d"), Ref("e")} :
         LET log == AuditLog(LogId(clock, logs), clock, "O1", "SUCCESS", 0)
         IN  /\ logs' = AppendLog(logs, log)
             /\ ret' = log
             /\ recorded' = Append(recorded,
                                [input_data |-> _serialize(input_data, heap),
                                 output_data |-> _serialize(output_data, heap)])
    /\ last_op' = "log_action"
    /\ UNCHANGED <<clock, trail_arg, export_file, heap>>
    /\ UNCHANGED <<atp_vars, pipeline_vars, dispatch_vars, caller_vars, batch_vars, request_vars>>

\* the caller, after the call: d[key] = ..., l.append(...), e.attr = ...
CallerSetsKey ==
    /\ heap.d.value < MaxEdits
    /\ heap' = [heap EXCEPT !.d.value = @ + 1]
    /\ UNCHANGED <<recorded, atp_vars, pipeline_vars, dispatch_vars, ledger_vars,
                   caller_vars, batch_vars, request_vars>>

CallerAppendsItem ==
    /\ Len(heap.l.items) < 2
    /\ heap' = [heap EXCEPT !.l.items = Append(@, DateValue(6))]
    /\ UNCHANGED <<recorded, atp_vars, pipeline_vars, dispatch_vars, ledger_vars,
                   caller_vars, batch_vars, request_vars>>

CallerSetsAttr ==
    /\ heap.e.attrs[1] # DateValue(6)
    /\ heap' = [heap EXCEPT !.e.attrs[1] = DateValue(6)]
    /\ UNCHANGED <<recorded, atp_vars, pipeline_vars, dispatch_vars, ledger_vars,
                   caller_vars, batch_vars, request_vars>>

NextSnapshot ==
    SnapshotLog \/ CallerSetsKey \/ CallerAppendsItem \/ CallerSetsAttr

SpecSnapshot == InitSnapshot /\ [][NextSnapshot]_vars

----------------------------------------------------------------------------
(* Properties *)

RECURSIVE SumQuantities(_)
SumQuantities(shipments) ==
    IF shipments = <<>> THEN 0
    ELSE Head(shipments).quantity + SumQuantities(Tail(shipments))

\* C1: the quantities of the shipments of every SplitDecision sum to its
\* total_quantity, which is the requested quantity of the line.
C1_ShipmentsSumToRequested ==
    split_decision # NoResult =>
        /\ split_decision.total_quantity = order_line.quantity
        /\ SumQuantities(split_decision.shipments) = split_decision.total_quantity

AllSendsFailed(d) == \A i \in 1..Len(d.sends) : ~d.sends[i]

\* C2: a dispatch all of whose send attempts fail ends FAILED with
\* attempt_count equal to max_retry_attempts.
C2_AlwaysFailingEndsFailed ==
    \A i \in 1..Len(dispatches) :
        AllSendsFailed(dispatches[i]) =>
            /\ dispatches[i].status = "FAILED"
            /\ dispatches[i].attempt_count = config.max_retry_attempts

\* C3: every dispatch ends in a terminal status, SENT or FAILED, and SENT only
\* after a successful attempt.
C3_DispatchEndsTerminal ==
    \A i \in 1..Len(dispatches) :
        /\ dispatches[i].status \in {"SENT", "FAILED"}
        /\ dispatches[i].status = "SENT" =>
               dispatches[i].sends[Len(dispatches[i].sends)]

C5_AppendOnly ==
    [][/\ Len(logs') >= Len(logs)
       /\ SubSeq(logs', 1, Len(logs)) = logs
       /\ last_op' = "log_action" => Len(logs') = Len(logs) + 1
       /\ last_op' \in {"get_audit_trail", "export_logs"} => logs' = logs]_vars

C5_Witness ==
    /\ Len(logs) = 2
    /\ logs[1] # logs[2]
    /\ last_op = "export_logs"
    /\ Len(ret) = 2

\* C6: the id of every new entry differs from the ids of the entries already
\* in the ledger and is strictly greater than the id of the entry before it.
C6_IdsUniqueAndIncreasing ==
    /\ \A i, j \in 1..Len(logs) : i # j => logs[i].log_id # logs[j].log_id
    /\ \A i \in 2..Len(logs) : StrLess(logs[i-1].log_id, logs[i].log_id)

AllReturned ==
    \A c \in Callers : caller_pc[c] = "idle" /\ caller_calls[c] = CallsPerCaller

\* C7: after concurrent callers have all returned, the ledger holds one entry
\* per call, the ids are unique and increasing in ledger order, and each
\* caller's entries are in the order the caller made them.
C7_ConcurrentAppendsSerialized ==
    AllReturned =>
        /\ Len(logs) = Cardinality(Callers) * CallsPerCaller
        /\ \A c \in Callers, n \in 1..CallsPerCaller :
              Cardinality({i \in 1..Len(logs) :
                  logs[i].order_id = c /\ logs[i].duration_ms = n}) = 1
        /\ \A i, j \in 1..Len(logs) :
              i < j => /\ logs[i].log_id # logs[j].log_id
                       /\ StrLess(logs[i].log_id, logs[j].log_id)
                       /\ logs[i].order_id = logs[j].order_id =>
                              logs[i].duration_ms < logs[j].duration_ms

\* C8: available_quantity never exceeds requested_quantity, in the results of
\* ATPEngine.calculate_atp and of ATPCheckerAgent.calculate_atp.
C8_AvailableAtMostRequested ==
    atp_by # "none" =>
        atp_result.available_quantity <= atp_result.requested_quantity

\* the rows and purchase orders that match the line's item and ship-from
MatchingRows ==
    {i \in DOMAIN inventory :
        /\ inventory[i].item = order_line.item
        /\ order_line.ship_from \in {NoShipFrom, inventory[i].location}}

RECURSIVE NetStock(_)
NetStock(rows) ==
    IF rows = {} THEN 0
    ELSE LET i == CHOOSE k \in rows : TRUE
         IN  inventory[i].on_hand_qty - inventory[i].safety_stock_qty
                 + NetStock(rows \ {i})

AvailableStockOfLine == Max(0, NetStock(MatchingRows))

CoveringPOs ==
    {i \in DOMAIN purchase_orders :
        /\ purchase_orders[i].item = order_line.item
        /\ order_line.ship_from \in {NoShipFrom, purchase_orders[i].location}
        /\ purchase_orders[i].confirmed
        /\ purchase_orders[i].quantity >= order_line.quantity}

C8_Witness ==
    /\ atp_by = "ATPEngine"
    /\ AvailableStockOfLine > order_line.quantity
    /\ atp_result.available_quantity = order_line.quantity

\* C9: when the available stock of the line covers the requested quantity,
\* ATPEngine.calculate_atp returns AVAILABLE from STOCK with the requested
\* quantity, whatever the purchase orders and the partial-ship setting.
C9_StockCoversIsAvailable ==
    (atp_by = "ATPEngine" /\ AvailableStockOfLine >= order_line.quantity) =>
        /\ atp_result.status = "AVAILABLE"
        /\ atp_result.source = "STOCK"
        /\ atp_result.available_quantity = order_line.quantity

C9_Witness ==
    /\ atp_by = "ATPEngine"
    /\ AvailableStockOfLine = order_line.quantity
    /\ Cardinality(MatchingRows) = 2
    /\ CoveringPOs # {}
    /\ ~config.allow_partial_ship
    /\ atp_result.status = "AVAILABLE"

\* C10: when the available stock of the line is positive but short of the
\* requested quantity and partial shipping is allowed, ATPEngine.calculate_atp
\* returns PARTIAL from STOCK with the available stock as quantity, also when
\* purchase orders could cover the whole quantity.
C10_ShortStockIsPartial ==
    (/\ atp_by = "ATPEngine"
     /\ 0 < AvailableStockOfLine
     /\ AvailableStockOfLine < order_line.quantity
     /\ config.allow_partial_ship) =>
        /\ atp_result.status = "PARTIAL"
        /\ atp_result.source = "STOCK"
        /\ atp_result.available_quantity = AvailableStockOfLine

C10_Witness ==
    /\ atp_by = "ATPEngine"
    /\ 0 < AvailableStockOfLine
    /\ AvailableStockOfLine < order_line.quantity
    /\ config.allow_partial_ship
    /\ CoveringPOs # {}
    /\ atp_result.status = "PARTIAL"

\* the positions of the ledger entries of an order, and the k-th of them
EntriesOf(order_id) == {i \in 1..Len(logs) : logs[i].order_id = order_id}

NthOf(S, k) == CHOOSE i \in S : Cardinality({j \in S : j <= i}) = k

IsTrailOf(trail, order_id) ==
    /\ Len(trail) = Cardinality(EntriesOf(order_id))
    /\ \A k \in 1..Len(trail) : trail[k] = logs[NthOf(EntriesOf(order_id), k)]

\* C14 as stated: get_audit_trail(order_id) returns exactly the ledger entries
\* whose order id equals order_id, in append order, for every order_id given;
\* without an order id it returns all entries in insertion order.
C14_TrailOfEveryOrderId ==
    last_op = "get_audit_trail" =>
        IF trail_arg = NoOrderId THEN ret = logs ELSE IsTrailOf(ret, trail_arg)

\* C14: get_audit_trail(order_id) with a non-empty order_id returns exactly
\* the ledger entries whose order id equals order_id, in append order; without
\* an order id, or with the empty string, it returns all entries in insertion
\* order.
C14_TrailOfNonEmptyOrderId ==
    last_op = "get_audit_trail" =>
        IF trail_arg \in {NoOrderId, EmptyOrderId}
        THEN ret = logs
        ELSE IsTrailOf(ret, trail_arg)

C14_Witness ==
    /\ last_op = "get_audit_trail"
    /\ trail_arg = "O1"
    /\ Len(logs) = 3
    /\ logs[1].order_id = "O1" /\ logs[2].order_id = "O2" /\ logs[3].order_id = "O1"
    /\ ret = <<logs[1], logs[3]>>

EnginePOs ==
    {i \in DOMAIN purchase_orders :
        /\ purchase_orders[i].item = order_line.item
        /\ order_line.ship_from \in {NoShipFrom, purchase_orders[i].location}
        /\ (purchase_orders[i].confirmed \/ config.consider_unconfirmed_pos)}

RECURSIVE SumPOQuantity(_)
SumPOQuantity(S) ==
    IF S = {} THEN 0
    ELSE LET i == CHOOSE k \in S : TRUE
         IN  purchase_orders[i].quantity + SumPOQuantity(S \ {i})

\* the delivery dates by which stock and purchase orders reach the quantity
ReachingDates ==
    {d \in {purchase_orders[i].expected_delivery_date : i \in EnginePOs} :
        AvailableStockOfLine
          + SumPOQuantity({i \in EnginePOs :
                              purchase_orders[i].expected_delivery_date <= d})
            >= order_line.quantity}

FirstReachingDate == CHOOSE d \in ReachingDates : \A e \in ReachingDates : d <= e

StockAloneFails ==
    /\ AvailableStockOfLine < order_line.quantity
    /\ ~(config.allow_partial_ship /\ AvailableStockOfLine > 0)

\* C20: when stock alone cannot fulfil the line and the partial branch does
\* not apply, ATPEngine.calculate_atp adds the quantities of the matching
\* purchase orders to the available stock in ascending delivery-date order;
\* at the first purchase order where the total reaches the requested quantity
\* it returns source INBOUND_PO, earliest date the later of the requested date
\* and that purchase order's date plus the receiving, quality and transit
\* buffer days, and status AVAILABLE when that buffered date is not after the
\* requested date, BACKORDER otherwise.
C20_InboundPOAccumulation ==
    (atp_by = "ATPEngine" /\ StockAloneFails /\ ReachingDates # {}) =>
        LET ready == FirstReachingDate + receiving_buffer_days
                        + quality_buffer_days + transit_days_default
        IN  /\ atp_result.source = "INBOUND_PO"
            /\ atp_result.earliest_available_date
                  = Max(order_line.requested_date, ready)
            /\ atp_result.status =
                  IF ready <= order_line.requested_date
                  THEN "AVAILABLE" ELSE "BACKORDER"

\* two purchase orders listed latest first, neither enough with the stock on
\* its own, reach the quantity together at the later one
C20_Witness ==
    /\ atp_by = "ATPEngine"
    /\ StockAloneFails
    /\ AvailableStockOfLine = 1
    /\ order_line.quantity = 3
    /\ EnginePOs = {1, 2}
    /\ purchase_orders[1].quantity = 1 /\ purchase_orders[2].quantity = 1
    /\ purchase_orders[1].expected_delivery_date = 7
    /\ purchase_orders[2].expected_delivery_date = 1
    /\ atp_result.source = "INBOUND_PO"
    /\ atp_result.earliest_available_date = 11

\* C13: when the processing of one order line fails in a stage of
\* process_orders, the batch is not aborted: the run goes on to produce
\* results for the other lines instead of ending by the exception.
C13_LineFailureIsolated ==
    stage # "raised"

OrderIdsInBatch == {order_lines[i].order_id : i \in 1..Len(order_lines)}

Composed == stage \in {"composed", "dispatched", "done"}

\* C16: compose_confirmation returns exactly one Confirmation for each
\* distinct order id of the input lines and none for any other order id,
\* however the lines of different orders are interleaved.
C16_OneConfirmationPerOrder ==
    Composed =>
        /\ \A o \in OrderIdsInBatch :
              Cardinality({n \in 1..Len(confirmations) :
                              confirmations[n].order_id = o}) = 1
        /\ \A n \in 1..Len(confirmations) :
              confirmations[n].order_id \in OrderIdsInBatch

C16_Witness ==
    /\ stage = "composed"
    /\ Len(order_lines) = 3
    /\ order_lines[1].order_id = "O1"
    /\ order_lines[2].order_id = "O2"
    /\ order_lines[3].order_id = "O1"
    /\ Len(confirmations) = 2

ShipmentsOfOrder(o) ==
    SumQuantities([i \in 1..Len(split_decisions) |->
        [quantity |-> IF split_decisions[i].order_id = o
                      THEN Len(split_decisions[i].shipments) ELSE 0]])

\* C18: no plan of evaluate_split and no order's set of plans of process_batch
\* has more shipments than max_splits_per_order, and no shipment of a plan of
\* several shipments has a quantity below min_split_quantity.
C18_SplitLimitsEnforced ==
    /\ \A i \in 1..Len(split_decisions) :
          /\ Len(split_decisions[i].shipments) <= max_splits_per_order
          /\ Len(split_decisions[i].shipments) > 1 =>
                \A k \in 1..Len(split_decisions[i].shipments) :
                    split_decisions[i].shipments[k].quantity >= min_split_quantity
    /\ \A o \in OrderIdsInBatch : ShipmentsOfOrder(o) <= max_splits_per_order

\* the one result of a stage that carries the key of a line
WithKey(results, key) ==
    results[CHOOSE i \in 1..Len(results) : KeyOf(results[i]) = key]

HasOneWithKey(results, key) ==
    Cardinality({i \in 1..Len(results) : KeyOf(results[i]) = key}) = 1

\* C19: the stages of process_orders run availability, scheduling, split,
\* composition, dispatch: a stage has results only when its predecessor has
\* one for every line; and for every line each stage's result is made from
\* the predecessor's result with the line's own (order id, line id).
C19_StagesJoinByKey ==
    /\ schedules # <<>> => Len(atp_results) = Len(order_lines)
    /\ split_decisions # <<>> => Len(schedules) = Len(order_lines)
    /\ confirmations # <<>> => Len(split_decisions) = Len(order_lines)
    /\ dispatches # <<>> => Len(confirmations) = Cardinality(OrderIdsInBatch)
    /\ \A i \in 1..Len(order_lines) :
          LET key == KeyOf(order_lines[i])
          IN  /\ atp_results # <<>> =>
                    /\ HasOneWithKey(atp_results, key)
                    /\ WithKey(atp_results, key) =
                          ATPCheckerAgent_calculate_atp(order_lines[i], inventory,
                                                        purchase_orders, config)
              /\ schedules # <<>> =>
                    /\ HasOneWithKey(schedules, key)
                    /\ WithKey(schedules, key).ship_date =
                          WithKey(atp_results, key).earliest_available_date
                    /\ WithKey(schedules, key).quantity =
                          WithKey(atp_results, key).available_quantity
              /\ split_decisions # <<>> =>
                    /\ HasOneWithKey(split_decisions, key)
                    /\ WithKey(split_decisions, key) =
                          evaluate_split(WithKey(atp_results, key),
                                         WithKey(schedules, key), order_lines[i])
    /\ \A n \in 1..Len(confirmations) :
          /\ confirmations[n].total_shipments =
                ShipmentsOfOrder(confirmations[n].order_id)
          /\ \A k \in 1..Len(confirmations[n].shipment_details) :
                \E i \in 1..Len(order_lines) :
                    KeyOf(order_lines[i]) =
                        <<confirmations[n].order_id,
                          confirmations[n].shipment_details[k].line_id>>
    /\ \A n \in 1..Len(dispatches) :
          dispatches[n].order_id = confirmations[n].order_id

\* a run through all stages on three lines of which the first two got
\* different availability results and different schedules
C19_Witness ==
    /\ stage = "done"
    /\ Len(order_lines) = 3
    /\ atp_results[1].status = "AVAILABLE"
    /\ atp_results[2].status = "PARTIAL"
    /\ schedules[1].transit_days # schedules[2].transit_days
    /\ Len(split_decisions[2].shipments) = 2
    /\ Len(dispatches) = 2

\* C12: when an inventory, purchase-order or lead-time fetch fails, the
\* failure is surfaced: the request ends in an error without availability
\* results and no lead time is returned; mock or default data never stands in.
C12_FetchFailureSurfaced ==
    /\ (stage = "done" /\ erp_failed \cap {"inventory", "purchase_orders"} # {}) =>
          /\ response.kind = "error"
          /\ response.results = <<>>
    /\ "lead_time" \in erp_failed => lead_time = NoResult

\* C17: a line with a non-positive quantity or a missing item code never
\* reaches the availability computation: no ATPResult is produced for it.
C17_InvalidLineRejected ==
    \A i \in 1..Len(atp_results) :
        /\ atp_results[i].requested_quantity > 0
        /\ atp_results[i].item \notin {NullItem, "nan"}

----------------------------------------------------------------------------
(* Availability results: purchase orders, fallback, inventory rows *)

\* C21: a result with source INBOUND_PO and status AVAILABLE has an earliest
\* available date not later than the requested date, and a purchase-order
\* sourced result dated later than the requested date has status BACKORDER,
\* in the results of ATPEngine.calculate_atp and of
\* ATPCheckerAgent.calculate_atp.
C21_InboundAvailableNotLate ==
    (atp_by # "none" /\ atp_result.source = "INBOUND_PO") =>
        /\ atp_result.status = "AVAILABLE" =>
              atp_result.earliest_available_date <= order_line.requested_date
        /\ atp_result.earliest_available_date > order_line.requested_date =>
              atp_result.status = "BACKORDER"

\* C22: when the line's item has no available stock and the matching purchase
\* orders never bring the running total up to the requested quantity,
\* ATPEngine.calculate_atp returns BACKORDER from FUTURE_PRODUCTION dated
\* today plus the default lead time plus the receiving, quality and transit
\* buffer days; every result of ATPEngine.calculate_atp carries a date.
C22_FutureProductionFallback ==
    atp_by = "ATPEngine" =>
        /\ atp_result.earliest_available_date # NoDate
        /\ (AvailableStockOfLine = 0 /\ ReachingDates = {}) =>
              /\ atp_result.status = "BACKORDER"
              /\ atp_result.source = "FUTURE_PRODUCTION"
              /\ atp_result.earliest_available_date =
                    Today + default_lead_time_days + receiving_buffer_days
                          + quality_buffer_days + transit_days_default

\* no stock, and two matching purchase orders that together stay below the
\* requested quantity
C22_Witness ==
    /\ atp_by = "ATPEngine"
    /\ AvailableStockOfLine = 0
    /\ Cardinality(EnginePOs) = 2
    /\ SumPOQuantity(EnginePOs) < order_line.quantity
    /\ atp_result.source = "FUTURE_PRODUCTION"

\* the inventory rows each computation matches with the line: the engine by
\* item and ship-from location, the pipeline's agent by item
ItemRows == {i \in DOMAIN inventory : inventory[i].item = order_line.item}

RowsOf(by) == IF by = "ATPEngine" THEN MatchingRows ELSE ItemRows

RECURSIVE SumField(_, _)
SumField(rows, field) ==
    IF rows = {} THEN 0
    ELSE LET i == CHOOSE k \in rows : TRUE
         IN  inventory[i][field] + SumField(rows \ {i}, field)

RowHolding(on_hand, safety) ==
    [item |-> order_line.item,
     location |-> IF order_line.ship_from = NoShipFrom
                  THEN "MAIN" ELSE order_line.ship_from,
     on_hand_qty |-> on_hand, safety_stock_qty |-> safety]

ResultOf(by, inv, pos) ==
    IF by = "ATPEngine"
    THEN ATPEngine_calculate_atp(order_line, inv, pos, config)
    ELSE ATPCheckerAgent_calculate_atp(order_line, inv, pos, config)

\* C23: when several inventory rows match the line's item, the result of
\* either availability computation equals its result for a single row that
\* holds the summed on-hand and the summed safety stock of the matching rows.
C23_InventoryRowsAdditive ==
    (atp_by # "none" /\ Cardinality(RowsOf(atp_by)) >= 2) =>
        atp_result =
            ResultOf(atp_by,
                     <<RowHolding(SumField(RowsOf(atp_by), "on_hand_qty"),
                                  SumField(RowsOf(atp_by), "safety_stock_qty"))>>,
                     purchase_orders)

\* C24: for a line whose item has no inventory row, either availability
\* computation returns what it returns when the item has one row with on-hand
\* 0 and safety stock 0.
C24_NoRowIsZeroStock ==
    (atp_by # "none" /\ RowsOf(atp_by) = {}) =>
        atp_result =
            ResultOf(atp_by, Append(inventory, RowHolding(0, 0)), purchase_orders)

ConfirmedOnly == SelectSeq(purchase_orders, LAMBDA p: p.confirmed)

\* C25: when consider_unconfirmed_pos is false, either availability
\* computation returns what it returns with every unconfirmed purchase order
\* removed from the input.
C25_UnconfirmedPOsIgnored ==
    (atp_by # "none" /\ ~config.consider_unconfirmed_pos) =>
        atp_result = ResultOf(atp_by, inventory, ConfirmedOnly)

----------------------------------------------------------------------------
(* Schedules and shipment plans of one order line *)

\* C26: for a PARTIAL availability result on a line that allows partial
\* shipment, evaluate_split returns exactly two shipments: first the available
\* quantity at the schedule's ship and delivery dates, then requested minus
\* available shipping default_lead_time_days after the scheduled ship date
\* and delivered the schedule's transit days after that; the split reason is
\* PARTIAL_AVAILABILITY.
C26_PartialSplitsInTwo ==
    (split_decision # NoResult /\ atp_result.status = "PARTIAL"
        /\ order_line.allow_partial) =>
        LET s == split_decision.shipments
        IN  /\ Len(s) = 2
            /\ s[1].quantity = atp_result.available_quantity
            /\ s[1].ship_date = schedule.ship_date
            /\ s[1].delivery_date = schedule.delivery_date
            /\ s[2].quantity = atp_result.requested_quantity
                                  - atp_result.available_quantity
            /\ s[2].ship_date = schedule.ship_date + default_lead_time_days
            /\ s[2].delivery_date = s[2].ship_date + schedule.transit_days
            /\ split_decision.split_reason = "PARTIAL_AVAILABILITY"

\* one unit of three in stock, on a schedule whose delivery moved off a weekend
C26_Witness ==
    /\ split_decision # NoResult
    /\ atp_result.status = "PARTIAL"
    /\ order_line.allow_partial
    /\ atp_result.requested_quantity = 3
    /\ atp_result.available_quantity = 1
    /\ schedule.delivery_date > schedule.ship_date + schedule.transit_days

ScheduledArrival == schedule.ship_date + schedule.transit_days

MovedOffWeekend == order_line.window /\ ScheduledArrival % 7 \in {5, 6}

\* C27 as stated: every schedule ships on the availability result's earliest
\* available date, has transit days within the carrier's [MIN, MAX] range and
\* a delivery date equal to ship date plus transit days.
C27_ScheduleFields ==
    schedule # NoResult =>
        /\ schedule.ship_date = atp_result.earliest_available_date
        /\ schedule.transit_days >= carrier_transit_times[schedule.carrier].MIN
        /\ schedule.transit_days <= carrier_transit_times[schedule.carrier].MAX
        /\ schedule.delivery_date = ScheduledArrival

\* C27, amended: the delivery date equals ship date plus transit days unless
\* the line declares a delivery window and that day is a Saturday or Sunday;
\* then the delivery date is later, by at most two days.
C27_ScheduleFieldsUnlessMoved ==
    schedule # NoResult =>
        /\ schedule.ship_date = atp_result.earliest_available_date
        /\ schedule.transit_days >= carrier_transit_times[schedule.carrier].MIN
        /\ schedule.transit_days <= carrier_transit_times[schedule.carrier].MAX
        /\ ~MovedOffWeekend => schedule.delivery_date = ScheduledArrival
        /\ MovedOffWeekend =>
              /\ schedule.delivery_date > ScheduledArrival
              /\ schedule.delivery_date <= ScheduledArrival + 2

\* a UPS schedule at the bottom of its range whose Saturday arrival was moved
C27_Witness ==
    /\ schedule # NoResult
    /\ schedule.carrier = "UPS"
    /\ schedule.transit_days = 2
    /\ order_line.window
    /\ ScheduledArrival % 7 = 5
    /\ schedule.delivery_date = ScheduledArrival + 2

\* C28: when the line declares a delivery window and ship date plus transit
\* days is a Saturday or Sunday, the delivery date is the first Monday after
\* it; otherwise the delivery date is ship date plus transit days.
C28_WeekendMovesToMonday ==
    schedule # NoResult =>
        IF MovedOffWeekend
        THEN /\ schedule.delivery_date % 7 = 0
             /\ schedule.delivery_date > ScheduledArrival
             /\ schedule.delivery_date < ScheduledArrival + 7
        ELSE schedule.delivery_date = ScheduledArrival

\* a Sunday arrival of a line with a window, delivered the next day
C28_Witness ==
    /\ schedule # NoResult
    /\ order_line.window
    /\ ScheduledArrival % 7 = 6
    /\ schedule.delivery_date = ScheduledArrival + 1

----------------------------------------------------------------------------
(* Confirmations of a batch *)

DecisionsOf(order_id) ==
    {i \in 1..Len(split_decisions) : split_decisions[i].order_id = order_id}

RECURSIVE CountShipments(_)
CountShipments(S) ==
    IF S = {} THEN 0
    ELSE LET i == CHOOSE k \in S : TRUE
         IN  Len(split_decisions[i].shipments) + CountShipments(S \ {i})

\* C29: the Confirmation of an order lists every shipment of every split
\* decision of that order exactly once, in the order of the decisions and of
\* the shipments within each decision, and nothing else; total_shipments is
\* the number of listed shipments and total_lines the number of input lines
\* of the order.
C29_ConfirmationListsShipments ==
    Composed =>
        \A n \in 1..Len(confirmations) :
            LET c == confirmations[n]
                mine == DecisionsOf(c.order_id)
            IN  /\ Len(c.shipment_details) = CountShipments(mine)
                /\ \A i \in mine :
                     \A k \in 1..Len(split_decisions[i].shipments) :
                        LET listed == c.shipment_details[
                                CountShipments({j \in mine : j < i}) + k]
                            shipment == split_decisions[i].shipments[k]
                        IN  /\ listed.line_id = split_decisions[i].line_id
                            /\ listed.item = split_decisions[i].item
                            /\ listed.quantity = shipment.quantity
                            /\ listed.ship_date = DateStr(shipment.ship_date)
                            /\ listed.delivery_date = DateStr(shipment.delivery_date)
                            /\ listed.carrier = shipment.carrier
                            /\ listed.status = shipment.status
                /\ c.total_shipments = Len(c.shipment_details)
                /\ c.total_lines =
                      Cardinality({i \in 1..Len(order_lines) :
                                      order_lines[i].order_id = c.order_id})

\* two lines of order O1 around a line of order O2; the first line of O1
\* ships in two parts, the second in one
C29_Witness ==
    /\ Composed
    /\ Len(order_lines) = 3
    /\ order_lines[1].order_id = "O1"
    /\ order_lines[2].order_id = "O2"
    /\ order_lines[3].order_id = "O1"
    /\ Len(split_decisions[1].shipments) = 2
    /\ Len(split_decisions[3].shipments) = 1
    /\ confirmations[1].order_id = "O1"
    /\ confirmations[1].total_shipments = 3

----------------------------------------------------------------------------
(* Ledger snapshots *)

\* what recorded data reads as, given the objects as they are now
RECURSIVE Resolve(_, _)
Resolve(s, h) ==
    IF s.kind = "ref" THEN Deep(s, h)
    ELSE IF s.kind = "list"
    THEN [kind |-> "list",
          items |-> [k \in 1..Len(s.items) |-> Resolve(s.items[k], h)]]
    ELSE IF s.kind = "fields"
    THEN [kind |-> "fields",
          entries |-> [k \in 1..Len(s.entries) |-> Resolve(s.entries[k], h)]]
    ELSE s

\* C30: no change the caller makes to the objects it passed to log_action
\* changes what the input_data or the output_data of a ledger entry reads as.
C30_SnapshotUnaffectedByCaller ==
    [][\A i \in 1..Len(recorded) :
          /\ Resolve(recorded'[i].input_data, heap')
                = Resolve(recorded[i].input_data, heap)
          /\ Resolve(recorded'[i].output_data, heap')
                = Resolve(recorded[i].output_data, heap)]_vars

====
